---- MODULE Spec2Model ----
(***************************************************************************)
(* pt::optional<T> (src/optional.h): a flag empty_ plus raw storage for    *)
(* one T.  The model keeps, for every optional, the flag the code keeps    *)
(* and the lifetime state of the storage (does it hold a live T, and with  *)
(* which value), so that the manual placement-new / explicit-destructor    *)
(* bookkeeping of the code can be checked against the flag.                *)
(***************************************************************************)
EXTENDS Integers, Sequences, FiniteSets, TLC

NumObj == 2
MaxVal == 2

Objs == 1..NumObj
\* the local `optional tmp{other}` of copy-assignment
Tmp == 0
Slots == Objs \cup {Tmp}
\* values of T; 0 doubles as the value a moved-from T may be left with
Values == 0..MaxVal
\* no copy link; no returned value
NoLink == [peer |-> Tmp, val |-> 0]
NoRet == <<>>

VARIABLES h, last, indep
vars == <<h, last, indep>>

\* an optional that is not constructed (before construction, after destruction)
NoObj == [ex |-> FALSE, empty |-> TRUE, live |-> FALSE, val |-> 0]

\* machine state threaded through one operation: the heap, the T-level
\* events, whether a T was constructed over a live T or left undestroyed
\* (leak), whether ~T() ran on storage holding no live T (bad), and the
\* exception in flight
St0(hp) ==
    [h |-> hp, ev |-> <<>>, leak |-> FALSE, bad |-> FALSE,
     thrown |-> FALSE, exc |-> "", what |-> "", ret |-> NoRet]

Occupied(hp, o) == hp[o].ex /\ ~hp[o].empty /\ hp[o].live
Empty(hp, o) == hp[o].ex /\ hp[o].empty /\ ~hp[o].live

-----------------------------------------------------------------------------
(* T-level primitives *)

\* operator*: reinterpret the storage as a T; an uninitialised slot reads as
\* an arbitrary value g
Deref(st, o, g) == IF st.h[o].live THEN st.h[o].val ELSE g

ReadEv(st, o) ==
    IF st.thrown THEN st ELSE [st EXCEPT !.ev = Append(@, <<"read", o>>)]

\* new(storage_) T{v}; `fails` is T's constructor throwing
PlacementNew(st, o, v, fails) ==
    IF st.thrown THEN st
    ELSE [st EXCEPT !.h[o].live = ~fails,
                    !.h[o].val = IF fails THEN 0 ELSE v,
                    !.ev = Append(@, <<"ctor", o>>),
                    !.leak = @ \/ st.h[o].live,
                    !.thrown = fails,
                    !.exc = IF fails THEN "T" ELSE @]

\* reinterpret_cast<T*>(storage_)->~T()
DestroyTRaw(st, o) ==
    [st EXCEPT !.h[o].live = FALSE,
               !.h[o].val = 0,
               !.ev = Append(@, <<"dtor", o>>),
               !.bad = @ \/ ~st.h[o].live]

DestroyT(st, o) == IF st.thrown THEN st ELSE DestroyTRaw(st, o)

\* what std::move leaves behind in a live source T: its value or the
\* moved-from value
MoveOut(st, s, keep) ==
    IF st.thrown \/ ~st.h[s].live \/ keep THEN st
    ELSE [st EXCEPT !.h[s].val = 0]

SetEmpty(st, o, e) ==
    IF st.thrown THEN st ELSE [st EXCEPT !.h[o].empty = e]

\* a constructor that exits by exception constructs no object
AbortCtor(st, o) ==
    IF st.thrown THEN [st EXCEPT !.h[o] = NoObj] ELSE st

-----------------------------------------------------------------------------
(* member functions *)

\* T & value()
ValueChk(st, o) ==
    IF st.thrown THEN st
    ELSE IF st.h[o].empty
         THEN [st EXCEPT !.thrown = TRUE,
                         !.exc = "bad_optional_access",
                         !.what = "call value on empty object"]
         ELSE ReadEv(st, o)

\* optional() / optional(nullopt_t)
DefaultCtor(st, o) ==
    [st EXCEPT !.h[o] = [ex |-> TRUE, empty |-> TRUE, live |-> FALSE, val |-> 0]]

\* construction from a value that initialises the flag as the default
\* constructor does
ValueCtorFlagEmpty(st, o, v, fails) ==
    LET s1 == [st EXCEPT !.h[o] = [ex |-> TRUE, empty |-> TRUE,
                                   live |-> FALSE, val |-> 0]]
    IN  AbortCtor(PlacementNew(s1, o, v, fails), o)

\* optional(const T&), optional(T&&), optional(in_place_t, Args&&...)
ValueCtor(st, o, v, fails) ==
    LET s1 == [st EXCEPT !.h[o] = [ex |-> TRUE, empty |-> FALSE,
                                   live |-> FALSE, val |-> 0]]
    IN  AbortCtor(PlacementNew(s1, o, v, fails), o)

\* copy construction that copies the flag and constructs nothing
CopyCtorFlagOnly(st, d, s, g, fails) ==
    [st EXCEPT !.h[d] = [ex |-> TRUE, empty |-> st.h[s].empty,
                         live |-> FALSE, val |-> 0]]

\* copy construction that moves the value out of its source
CopyCtorSteals(st, d, s, g, fails) ==
    LET s1 == [st EXCEPT !.h[d] = [ex |-> TRUE, empty |-> st.h[s].empty,
                                   live |-> FALSE, val |-> 0]]
        s2 == ValueChk(s1, s)
        s3 == PlacementNew(s2, d, Deref(s2, s, g), fails)
    IN  IF s1.h[d].empty THEN s1
        ELSE AbortCtor(MoveOut(s3, s, FALSE), d)

\* optional(const optional &other)
CopyCtor(st, d, s, g, fails) ==
    LET s1 == [st EXCEPT !.h[d] = [ex |-> TRUE, empty |-> st.h[s].empty,
                                   live |-> FALSE, val |-> 0]]
        s2 == ValueChk(s1, s)
    IN  IF s1.h[d].empty THEN s1
        ELSE AbortCtor(PlacementNew(s2, d, Deref(s2, s, g), fails), d)

\* move construction that empties its source
MoveCtorEmptiesSource(st, d, s, g, keep, fails) ==
    LET s1 == [st EXCEPT !.h[d] = [ex |-> TRUE, empty |-> st.h[s].empty,
                                   live |-> FALSE, val |-> 0]]
        s2 == ValueChk(s1, s)
        s3 == PlacementNew(s2, d, Deref(s2, s, g), fails)
        s4 == SetEmpty(DestroyT(s3, s), s, TRUE)
    IN  IF s1.h[d].empty THEN s1 ELSE AbortCtor(s4, d)

\* optional(optional &&other)
MoveCtor(st, d, s, g, keep, fails) ==
    LET s1 == [st EXCEPT !.h[d] = [ex |-> TRUE, empty |-> st.h[s].empty,
                                   live |-> FALSE, val |-> 0]]
        s2 == ValueChk(s1, s)
        s3 == PlacementNew(s2, d, Deref(s2, s, g), fails)
    IN  IF s1.h[d].empty THEN s1
        ELSE AbortCtor(MoveOut(s3, s, keep), d)

\* ~optional()
Dtor(st, o) ==
    LET s1 == IF ~st.h[o].empty THEN DestroyTRaw(st, o) ELSE st
    IN  [s1 EXCEPT !.h[o] = NoObj, !.leak = @ \/ s1.h[o].live]

\* operator=(nullopt_t) that runs the destructor without looking at the flag
AssignNulloptUnchecked(st, o) ==
    SetEmpty(DestroyT(st, o), o, TRUE)

\* operator=(nullopt_t)
AssignNullopt(st, o) ==
    LET s1 == IF ~st.h[o].empty THEN DestroyT(st, o) ELSE st
    IN  SetEmpty(s1, o, TRUE)

\* swap(**this, *other): T's own swap of the two contained values (the call
\* the statement is written to make; inside the class the name swap finds the
\* member first)
TSwap(st, x, y, g, fails) ==
    LET s1 == ReadEv(ReadEv(st, x), y)
        vx == Deref(st, x, g)
        vy == Deref(st, y, g)
    IN  IF fails
        THEN [s1 EXCEPT !.thrown = TRUE, !.exc = "T"]
        ELSE [s1 EXCEPT !.h[x].val = IF st.h[x].live THEN vy ELSE 0,
                        !.h[y].val = IF st.h[y].live THEN vx ELSE 0,
                        !.ev = Append(@, <<"tswap", x>>)]

\* void swap(optional &other), called as x.swap(y)
Swap(st, x, y, g, keep, fails) ==
    IF st.thrown THEN st
    ELSE IF st.h[x].empty /\ st.h[y].empty THEN st
    ELSE IF ~st.h[x].empty /\ ~st.h[y].empty THEN TSwap(st, x, y, g, fails)
    ELSE LET in == IF st.h[x].empty THEN x ELSE y
             un == IF st.h[x].empty THEN y ELSE x
             s1 == ReadEv(st, in)
             s2 == PlacementNew(s1, un, Deref(s1, in, g), fails)
             s3 == MoveOut(s2, in, keep)
             s4 == DestroyT(s3, in)
         IN  SetEmpty(SetEmpty(s4, un, FALSE), in, TRUE)

\* copy-assignment that clears *this and then copy-constructs in place
CopyAssignInPlace(st, a, b, g, keep, failCopy, failSwap) ==
    LET s1 == SetEmpty(IF ~st.h[a].empty THEN DestroyT(st, a) ELSE st, a, TRUE)
        s2 == PlacementNew(ReadEv(s1, b), a, Deref(s1, b, g), failCopy)
    IN  IF st.h[b].empty THEN s1 ELSE SetEmpty(s2, a, FALSE)

\* copy-assignment whose temporary is never destroyed
CopyAssignLeaksTmp(st, a, b, g, keep, failCopy, failSwap) ==
    LET s1 == CopyCtor(st, Tmp, b, g, failCopy)
        s2 == Swap(s1, a, Tmp, g, keep, failSwap)
    IN  IF s1.thrown THEN s1
        ELSE [s2 EXCEPT !.h[Tmp] = NoObj, !.leak = @ \/ s2.h[Tmp].live]

\* operator=(const optional &other): optional tmp{other}; swap(tmp);
\* tmp is destroyed when the scope is left, also by an exception of swap
CopyAssign(st, a, b, g, keep, failCopy, failSwap) ==
    LET s1 == CopyCtor(st, Tmp, b, g, failCopy)
        s2 == Swap(s1, a, Tmp, g, keep, failSwap)
    IN  IF s1.thrown THEN s1 ELSE Dtor(s2, Tmp)

\* *reinterpret_cast<T*>(storage_) = std::move(other.value())
TMoveAssign(st, d, s, g, keep, fails) ==
    LET s1 == ValueChk(st, s)
        v == Deref(st, s, g)
        s2 == MoveOut(s1, s, keep)
    IN  IF s1.thrown THEN s1
        ELSE IF fails THEN [s1 EXCEPT !.thrown = TRUE, !.exc = "T"]
        ELSE IF d = s THEN [s2 EXCEPT !.ev = Append(@, <<"massign", d>>)]
        ELSE [s2 EXCEPT !.h[d].val = IF st.h[d].live THEN v ELSE 0,
                        !.ev = Append(@, <<"massign", d>>)]

\* move-assignment that destroys the value but leaves the flag alone
MoveAssignKeepsFlag(st, d, s, g, keep, fails) ==
    IF st.h[d].empty
    THEN IF st.h[s].empty THEN st
         ELSE LET s1 == ValueChk(st, s)
                  s2 == PlacementNew(s1, d, Deref(s1, s, g), fails)
                  s3 == MoveOut(s2, s, keep)
              IN  SetEmpty(s3, d, FALSE)
    ELSE IF st.h[s].empty
         THEN DestroyT(st, d)
         ELSE TMoveAssign(st, d, s, g, keep, fails)

\* move-assignment that constructs into empty storage without setting the flag
MoveAssignNoOccupy(st, d, s, g, keep, fails) ==
    IF st.h[d].empty
    THEN IF st.h[s].empty THEN st
         ELSE LET s1 == ValueChk(st, s)
                  s2 == PlacementNew(s1, d, Deref(s1, s, g), fails)
              IN  MoveOut(s2, s, keep)
    ELSE IF st.h[s].empty
         THEN SetEmpty(DestroyT(st, d), d, TRUE)
         ELSE TMoveAssign(st, d, s, g, keep, fails)

\* move-assignment that replaces a held value by destroying it and
\* constructing the new one
MoveAssignRebuilds(st, d, s, g, keep, fails) ==
    IF st.h[s].empty
    THEN IF st.h[d].empty THEN st ELSE SetEmpty(DestroyT(st, d), d, TRUE)
    ELSE LET s0 == IF st.h[d].empty THEN st
                   ELSE SetEmpty(DestroyT(st, d), d, TRUE)
             s1 == ValueChk(s0, s)
             s2 == PlacementNew(s1, d, Deref(s1, s, g), fails)
             s3 == MoveOut(s2, s, keep)
         IN  SetEmpty(s3, d, FALSE)

\* operator=(optional &&other)
MoveAssign(st, d, s, g, keep, fails) ==
    IF st.h[d].empty
    THEN IF st.h[s].empty THEN st
         ELSE LET s1 == ValueChk(st, s)
                  s2 == PlacementNew(s1, d, Deref(s1, s, g), fails)
                  s3 == MoveOut(s2, s, keep)
              IN  SetEmpty(s3, d, FALSE)
    ELSE IF st.h[s].empty
         THEN SetEmpty(DestroyT(st, d), d, TRUE)
         ELSE TMoveAssign(st, d, s, g, keep, fails)

\* emplace that constructs without destroying the value it replaces
EmplaceNoDestroy(st, o, v, fails) ==
    SetEmpty(PlacementNew(st, o, v, fails), o, FALSE)

\* emplace that leaves the flag alone while it replaces the value
EmplaceKeepsFlag(st, o, v, fails) ==
    LET s1 == IF ~st.h[o].empty THEN DestroyT(st, o) ELSE st
        s2 == PlacementNew(s1, o, v, fails)
    IN  SetEmpty(s2, o, FALSE)

\* emplace(Args&&...)
Emplace(st, o, v, fails) ==
    LET s1 == IF ~st.h[o].empty
              THEN SetEmpty(DestroyT(st, o), o, TRUE) ELSE st
        s2 == PlacementNew(s1, o, v, fails)
    IN  SetEmpty(s2, o, FALSE)

\* value() without the check for empty
ValueUnchecked(st, o, g) ==
    [ReadEv(st, o) EXCEPT !.ret = <<Deref(st, o, g)>>]

\* T & value(): the checked access, returning the contained value
Value(st, o, g) ==
    LET s1 == ValueChk(st, o)
    IN  IF s1.thrown THEN s1 ELSE [s1 EXCEPT !.ret = <<Deref(st, o, g)>>]

\* value_or with the test inverted
ValueOrInverted(st, o, fb, g) ==
    IF ~st.h[o].empty THEN [st EXCEPT !.ret = <<fb>>]
    ELSE [ReadEv(st, o) EXCEPT !.ret = <<Deref(st, o, g)>>]

\* T value_or(U &&value) const: empty_ ? value : **this
ValueOr(st, o, fb, g) ==
    IF st.h[o].empty THEN [st EXCEPT !.ret = <<fb>>]
    ELSE [ReadEv(st, o) EXCEPT !.ret = <<Deref(st, o, g)>>]

\* explicit operator bool() const
OpBool(hp, o) == ~hp[o].empty

\* operator== that compares the flags only
OptEqFlagsOnly(hp, l, r, g) == OpBool(hp, l) = OpBool(hp, r)

\* bool operator==(const optional<T>&, const optional<T>&)
OptEq(hp, l, r, g) ==
    IF (~hp[l].empty) # (~hp[r].empty) THEN FALSE
    ELSE IF hp[l].empty /\ hp[r].empty THEN TRUE
    ELSE (IF hp[l].live THEN hp[l].val ELSE g)
         = (IF hp[r].live THEN hp[r].val ELSE g)

\* bool operator==(const optional<T>&, nullopt_t)
OptEqNullopt(hp, o) == ~OpBool(hp, o)

\* bool operator==(nullopt_t, const optional<T>&)
NulloptEqOpt(hp, o) == ~OpBool(hp, o)

\* bool operator==(const optional<T>&, const T&)
OptEqValue(hp, o, v, g) ==
    IF OpBool(hp, o) THEN (IF hp[o].live THEN hp[o].val ELSE g) = v ELSE FALSE

\* bool operator==(const T&, const optional<T>&)
ValueEqOpt(hp, v, o, g) ==
    IF OpBool(hp, o) THEN (IF hp[o].live THEN hp[o].val ELSE g) = v ELSE FALSE

-----------------------------------------------------------------------------
(* the state machine: one action per operation of the class *)

\* the record of the operation that produced the current state
Rec(op, a, b, arg, inj, st) ==
    [op |-> op, a |-> a, b |-> b, arg |-> arg, inj |-> inj, pre |-> h,
     ev |-> st.ev, leak |-> st.leak, bad |-> st.bad, thrown |-> st.thrown,
     exc |-> st.exc, what |-> st.what, ret |-> st.ret]

\* indep[o] = [peer, val]: o took part in a copy construction whose source
\* held val, and no operation has had o as an operand since
Untouch(touched) == [o \in Objs |-> IF o \in touched THEN NoLink ELSE indep[o]]

Step(op, a, b, arg, inj, result, touched) ==
    \E st \in {result} :
        /\ h' = st.h
        /\ last' = Rec(op, a, b, arg, inj, st)
        /\ indep' = Untouch(touched)

\* which of T's operations was made to throw in a step
Inj(fails) == IF fails THEN "T" ELSE "none"

\* the inputs of a step are drawn only where the step uses them: T's
\* operation can throw where one runs, an uninitialised read can produce any
\* value where storage without a live T is read, and std::move can leave
\* either residue where a live T is moved from
Fails(used) == IF used THEN BOOLEAN ELSE {FALSE}
Garbage(used) == IF used THEN Values ELSE {0}
Residue(used) == IF used THEN BOOLEAN ELSE {TRUE}

BothEmpty(x, y) == h[x].empty /\ h[y].empty
SomeDead(x, y) == ~h[x].live \/ ~h[y].live
\* the side swap moves from is the one whose flag says empty
SwapMovesLive(x, y) ==
    /\ h[x].empty # h[y].empty
    /\ \E o \in {x, y} : h[o].empty /\ h[o].live

Init ==
    /\ h = [o \in Slots |-> NoObj]
    /\ last = [op |-> "init", a |-> Tmp, b |-> Tmp, arg |-> 0, inj |-> "none",
               pre |-> [o \in Slots |-> NoObj], ev |-> <<>>, leak |-> FALSE,
               bad |-> FALSE, thrown |-> FALSE, exc |-> "", what |-> "",
               ret |-> NoRet]
    /\ indep = [o \in Objs |-> NoLink]

ConstructDefault ==
    \E o \in Objs :
        /\ ~h[o].ex
        /\ Step("ctor_default", o, o, 0, "none", DefaultCtor(St0(h), o), {o})

ConstructValue ==
    \E o \in Objs, v \in Values, fails \in BOOLEAN :
        /\ ~h[o].ex
        /\ Step("ctor_value", o, o, v, Inj(fails), ValueCtor(St0(h), o, v, fails), {o})

ConstructCopy ==
    \E d \in Objs, s \in Objs :
      \E fails \in Fails(~h[s].empty),
         g \in Garbage(~h[s].empty /\ ~h[s].live) :
        /\ ~h[d].ex /\ h[s].ex
        /\ \E st \in {CopyCtor(St0(h), d, s, g, fails)} :
               /\ h' = st.h
               /\ last' = Rec("ctor_copy", d, s, 0, Inj(fails), st)
               /\ indep' =
                    IF Occupied(h, s) /\ ~st.thrown
                    THEN [indep EXCEPT
                            ![d] = [peer |-> s, val |-> h[s].val],
                            ![s] = [peer |-> d, val |-> h[s].val]]
                    ELSE Untouch({d})

ConstructMove ==
    \E d \in Objs, s \in Objs :
      \E fails \in Fails(~h[s].empty),
         g \in Garbage(~h[s].empty /\ ~h[s].live),
         keep \in Residue(~h[s].empty /\ h[s].live) :
        /\ ~h[d].ex /\ h[s].ex
        /\ Step("ctor_move", d, s, 0, Inj(fails),
                MoveCtor(St0(h), d, s, g, keep, fails), {d, s})

Destroy ==
    \E o \in Objs :
        /\ h[o].ex
        /\ Step("dtor", o, o, 0, "none", Dtor(St0(h), o), {o})

DoAssignNullopt ==
    \E o \in Objs :
        /\ h[o].ex
        /\ Step("assign_nullopt", o, o, 0, "none",
                AssignNullopt(St0(h), o), {o})

DoCopyAssign ==
    \E a \in Objs, b \in Objs :
      \E failCopy \in Fails(~h[b].empty) :
      \E failSwap \in Fails(~failCopy /\ ~BothEmpty(a, b)),
         g \in Garbage(~BothEmpty(a, b) /\ SomeDead(a, b)),
         keep \in Residue(SwapMovesLive(a, b)) :
        /\ h[a].ex /\ h[b].ex
        /\ Step("copy_assign", a, b, 0,
                IF failCopy THEN "copy" ELSE IF failSwap THEN "swap" ELSE "none",
                CopyAssign(St0(h), a, b, g, keep, failCopy, failSwap), {a})

DoMoveAssign ==
    \E d \in Objs, s \in Objs :
      \E fails \in Fails(~h[s].empty),
         g \in Garbage(~h[s].empty /\ ~h[s].live),
         keep \in Residue(~h[s].empty /\ h[s].live) :
        /\ h[d].ex /\ h[s].ex
        /\ Step("move_assign", d, s, 0, Inj(fails),
                MoveAssign(St0(h), d, s, g, keep, fails), {d, s})

DoSwap ==
    \E x \in Objs, y \in Objs :
      \E fails \in Fails(~BothEmpty(x, y)),
         g \in Garbage(~BothEmpty(x, y) /\ SomeDead(x, y)),
         keep \in Residue(SwapMovesLive(x, y)) :
        /\ h[x].ex /\ h[y].ex
        /\ Step("swap", x, y, 0, Inj(fails),
                Swap(St0(h), x, y, g, keep, fails), {x, y})

DoEmplace ==
    \E o \in Objs, v \in Values, fails \in BOOLEAN :
        /\ h[o].ex
        /\ Step("emplace", o, o, v, Inj(fails), Emplace(St0(h), o, v, fails), {o})

DoValue ==
    \E o \in Objs :
      \E g \in Garbage(~h[o].empty /\ ~h[o].live) :
        /\ h[o].ex
        /\ \E st \in {Value(St0(h), o, g)} :
               /\ h' = st.h
               /\ last' = Rec("value", o, o, 0, "none", st)
               /\ indep' = indep

Next ==
    \/ ConstructDefault
    \/ ConstructValue
    \/ ConstructCopy
    \/ ConstructMove
    \/ Destroy
    \/ DoAssignNullopt
    \/ DoCopyAssign
    \/ DoMoveAssign
    \/ DoSwap
    \/ DoEmplace
    \/ DoValue

Spec == Init /\ [][Next]_vars

-----------------------------------------------------------------------------
(* the observers: the const operations, applied to optionals in any of the
   states the operations above leave them in when they complete *)

Ret(op, a, b, arg, r) ==
    /\ h' = h
    /\ last' = Rec(op, a, b, arg, "none", [St0(h) EXCEPT !.ret = <<r>>])
    /\ indep' = indep

\* an optional between operations: empty, or holding a value
Settled ==
    {[ex |-> TRUE, empty |-> TRUE, live |-> FALSE, val |-> 0]}
    \cup {[ex |-> TRUE, empty |-> FALSE, live |-> TRUE, val |-> v] : v \in Values}

InitObs ==
    /\ h \in {hp \in [Slots -> Settled \cup {NoObj}] :
                 hp[Tmp] = NoObj /\ \A o \in Objs : hp[o] \in Settled}
    /\ last = [op |-> "init", a |-> Tmp, b |-> Tmp, arg |-> 0, inj |-> "none",
               pre |-> [o \in Slots |-> NoObj], ev |-> <<>>, leak |-> FALSE,
               bad |-> FALSE, thrown |-> FALSE, exc |-> "", what |-> "",
               ret |-> NoRet]
    /\ indep = [o \in Objs |-> NoLink]

DoEqual ==
    \E l \in Objs, r \in Objs :
        /\ h[l].ex /\ h[r].ex
        /\ Ret("eq", l, r, 0, OptEq(h, l, r, 0))

DoEqualNullopt ==
    \E o \in Objs :
        /\ h[o].ex
        /\ \/ Ret("eq_nullopt", o, o, 0, OptEqNullopt(h, o))
           \/ Ret("nullopt_eq", o, o, 0, NulloptEqOpt(h, o))

DoEqualValue ==
    \E o \in Objs, v \in Values :
        /\ h[o].ex
        /\ \/ Ret("eq_value", o, o, v, OptEqValue(h, o, v, 0))
           \/ Ret("value_eq", o, o, v, ValueEqOpt(h, v, o, 0))

DoValueOr ==
    \E o \in Objs, fb \in Values :
        /\ h[o].ex
        /\ \E st \in {ValueOr(St0(h), o, fb, 0)} :
               /\ h' = st.h
               /\ last' = Rec("value_or", o, o, fb, "none", st)
               /\ indep' = indep

NextObs ==
    \/ DoEqual
    \/ DoEqualNullopt
    \/ DoEqualValue
    \/ DoValueOr

SpecObs == InitObs /\ [][NextObs]_vars

-----------------------------------------------------------------------------
(* properties *)

\* the flag of o agrees with its storage
SyncObj(hp, o) == hp[o].live = (hp[o].ex /\ ~hp[o].empty)
Sync(hp) == \A o \in Slots : SyncObj(hp, o)

Done(op) == last.op = op /\ ~last.thrown

\* C1: after x.swap(y) on distinct optionals of which exactly one held a
\* value v, the one that held it is empty and the other one holds v,
\* whichever of the two was the receiver.
C1_SwapExchangesOneSided ==
    \A in \in Objs, un \in Objs :
        (/\ Done("swap")
         /\ {last.a, last.b} = {in, un} /\ in # un
         /\ Occupied(last.pre, in) /\ Empty(last.pre, un))
        => (/\ Empty(h, in)
            /\ Occupied(h, un)
            /\ h[un].val = last.pre[in].val)

\* C2: after a = b (copy-assignment) completes, a has the occupancy b had,
\* a holds b's value when b held one, and b is unchanged.
C2_CopyAssignCopies ==
    (/\ Done("copy_assign") /\ last.a # last.b
     /\ SyncObj(last.pre, last.a) /\ SyncObj(last.pre, last.b))
    => (/\ h[last.a].empty = last.pre[last.b].empty
        /\ SyncObj(h, last.a)
        /\ Occupied(last.pre, last.b) => h[last.a].val = last.pre[last.b].val
        /\ h[last.b] = last.pre[last.b])

\* C3: no operation constructs a T over storage that still holds a live T,
\* runs ~T() on storage that holds no live T, or leaves a live T behind in a
\* destroyed optional.
C3_EveryTDestroyedOnce ==
    /\ ~last.leak
    /\ ~last.bad
    /\ \A o \in Slots : ~h[o].ex => ~h[o].live

C5_CopyAssignStrong ==
    (/\ last.op = "copy_assign" /\ last.inj = "copy"
     /\ ~last.pre[last.b].empty)
    => (/\ last.thrown /\ last.exc = "T"
        /\ h = last.pre)

C5_Witness ==
    /\ last.op = "copy_assign" /\ last.inj = "copy" /\ last.a # last.b
    /\ Occupied(last.pre, last.a) /\ Occupied(last.pre, last.b)
    /\ last.pre[last.a].val # last.pre[last.b].val
    /\ last.thrown
    /\ h[last.a] = last.pre[last.a]

\* C6: value() on an empty optional throws bad_optional_access with a
\* non-empty description without reading the storage; on an occupied one it
\* returns the contained value; it never changes the optional.
HasRead(ev) == \E i \in 1..Len(ev) : ev[i][1] = "read"

C6_ValueChecked ==
    last.op = "value"
    => (/\ h = last.pre
        /\ Empty(last.pre, last.a)
           => (/\ last.thrown /\ last.exc = "bad_optional_access"
               /\ last.what # ""
               /\ last.ret = NoRet
               /\ ~HasRead(last.ev))
        /\ Occupied(last.pre, last.a)
           => (/\ ~last.thrown
               /\ last.ret = <<last.pre[last.a].val>>))

C6_Witness ==
    /\ last.op = "value" /\ Empty(last.pre, last.a)
    /\ last.thrown /\ last.exc = "bad_optional_access"
    /\ h = last.pre

\* C7: a second x.swap(y) right after a first one restores the occupancy and
\* the value both optionals had before the first.
C7_SwapTwiceRestores ==
    [][(/\ Done("swap") /\ Sync(last.pre)
        /\ last'.op = "swap" /\ ~last'.thrown
        /\ last'.a = last.a /\ last'.b = last.b
        /\ last'.pre = h)
       => (/\ h'[last.a] = last.pre[last.a]
           /\ h'[last.b] = last.pre[last.b])]_vars

\* C8: after a = std::move(b) on distinct optionals completes, a has the
\* occupancy b had; a holds the value b held when b held one; a's old value
\* is destroyed when b was empty.
C8_MoveAssignCases ==
    (/\ Done("move_assign") /\ last.a # last.b
     /\ SyncObj(last.pre, last.a) /\ SyncObj(last.pre, last.b))
    => (/\ h[last.a].empty = last.pre[last.b].empty
        /\ SyncObj(h, last.a)
        /\ Occupied(last.pre, last.b)
           => h[last.a].val = last.pre[last.b].val
        /\ (Occupied(last.pre, last.a) /\ Empty(last.pre, last.b))
           => last.ev = << <<"dtor", last.a>> >>)

C8_Witness ==
    /\ Done("move_assign") /\ last.a # last.b
    /\ Empty(last.pre, last.a) /\ Occupied(last.pre, last.b)
    /\ Occupied(h, last.a)
    /\ h[last.a].val = MaxVal

\* C9: b constructed as a copy of a is empty when a is empty, and occupied
\* and equal to a by operator== when a is occupied; a is unchanged.
C9_CopyCtorRoundTrip ==
    (Done("ctor_copy") /\ SyncObj(last.pre, last.b))
    => (/\ Empty(last.pre, last.b) => Empty(h, last.a)
        /\ Occupied(last.pre, last.b)
           => (/\ Occupied(h, last.a)
               /\ \A g \in Values : OptEq(h, last.a, last.b, g))
        /\ h[last.b] = last.pre[last.b])

C9_Witness ==
    /\ Done("ctor_copy")
    /\ Occupied(last.pre, last.b) /\ last.pre[last.b].val = MaxVal
    /\ Occupied(h, last.a)
    /\ OptEq(h, last.a, last.b, 0)

\* C10: an optional that took part in a copy construction from an occupied
\* source (as the copy or as the source) keeps its occupancy and the copied
\* value whatever is later done to the other one, until it is itself the
\* operand of an operation.
C10_CopyIndependent ==
    \A o \in Objs :
        indep[o] # NoLink
        => (Occupied(h, o) /\ h[o].val = indep[o].val)

\* a.emplace(v); b{a}; a = nullopt: a is empty, b still holds v
C10_Witness ==
    \E b \in Objs :
        /\ last.op = "assign_nullopt" /\ last.a # b
        /\ indep[b] # NoLink /\ indep[b].peer = last.a
        /\ Occupied(last.pre, last.a) /\ Empty(h, last.a)
        /\ Occupied(h, b) /\ h[b].val = MaxVal

\* C11: opt == opt is true exactly when both are empty or both hold equal
\* values; opt == nullopt and nullopt == opt exactly when opt is empty;
\* opt == v and v == opt exactly when opt holds a value equal to v. Hence an
\* optional equals itself, both operand orders agree, and an empty optional
\* equals no occupied optional and no bare value.
C11_EqualityLaws ==
    /\ last.op = "eq"
       => last.ret = << \/ Empty(h, last.a) /\ Empty(h, last.b)
                        \/ /\ Occupied(h, last.a) /\ Occupied(h, last.b)
                           /\ h[last.a].val = h[last.b].val >>
    /\ last.op \in {"eq_nullopt", "nullopt_eq"}
       => last.ret = <<Empty(h, last.a)>>
    /\ last.op \in {"eq_value", "value_eq"}
       => last.ret = <<Occupied(h, last.a) /\ h[last.a].val = last.arg>>

\* two occupied optionals holding different values compare unequal
C11_Witness ==
    /\ last.op = "eq" /\ last.ret = <<FALSE>>
    /\ Occupied(h, last.a) /\ Occupied(h, last.b)
    /\ h[last.a].val # h[last.b].val

\* C12: after emplace(v) completes the optional holds v; a value it held
\* before was destroyed exactly once, before the new one was constructed;
\* every other optional is unchanged.
C12_EmplaceReplaces ==
    (Done("emplace") /\ SyncObj(last.pre, last.a))
    => (/\ Occupied(h, last.a) /\ h[last.a].val = last.arg
        /\ last.ev = IF Occupied(last.pre, last.a)
                     THEN << <<"dtor", last.a>>, <<"ctor", last.a>> >>
                     ELSE << <<"ctor", last.a>> >>
        /\ ~last.leak /\ ~last.bad
        /\ \A o \in Slots \ {last.a} : h[o] = last.pre[o])

C12_Witness ==
    \E o \in Objs :
        /\ Done("emplace") /\ o # last.a
        /\ Occupied(last.pre, last.a) /\ last.pre[last.a].val # last.arg
        /\ Occupied(h, last.a) /\ h[last.a].val = last.arg
        /\ Occupied(h, o)

\* C13: opt = nullopt destroys the held value exactly once and leaves opt
\* empty; on an empty opt it destroys nothing and leaves it empty, so that a
\* second opt = nullopt changes nothing.
C13_AssignNulloptIdempotent ==
    (last.op = "assign_nullopt" /\ SyncObj(last.pre, last.a))
    => (/\ ~last.thrown
        /\ Empty(h, last.a)
        /\ last.ev = IF Occupied(last.pre, last.a)
                     THEN << <<"dtor", last.a>> >> ELSE <<>>
        /\ ~last.bad /\ ~last.leak
        /\ AssignNullopt(St0(h), last.a) = St0(h))

C13_Witness ==
    /\ Done("assign_nullopt") /\ Empty(last.pre, last.a)
    /\ \E o \in Objs : Occupied(h, o)
    /\ h = last.pre /\ last.ev = <<>>

\* C14: when T's constructor, assignment or swap throws inside move-assignment,
\* emplace or swap, the exception reaches the caller, every flag still agrees
\* with its storage, no T was constructed over a live T and ~T() ran on no
\* dead slot.
C14_BasicGuarantee ==
    (/\ last.op \in {"move_assign", "emplace", "swap"}
     /\ last.inj = "T" /\ Sync(last.pre))
    => (/\ last.thrown /\ last.exc = "T"
        /\ Sync(h)
        /\ ~last.leak /\ ~last.bad)

C16_InitialStates ==
    /\ Done("ctor_default")
       => (/\ Empty(h, last.a) /\ ~OpBool(h, last.a)
           /\ last.ev = <<>>)
    /\ Done("ctor_value")
       => (/\ Occupied(h, last.a) /\ OpBool(h, last.a)
           /\ last.ev = << <<"ctor", last.a>> >>
           /\ ~Value(St0(h), last.a, 0).thrown
           /\ Value(St0(h), last.a, 0).ret = <<last.arg>>)

C16_Witness ==
    /\ Done("ctor_value") /\ last.arg = MaxVal
    /\ Occupied(h, last.a) /\ h[last.a].val = MaxVal
    /\ \E o \in Objs : Empty(h, o)

HasEv(ev, k, o) == \E i \in 1..Len(ev) : ev[i] = <<k, o>>

\* C17: a = std::move(b) with both occupied move-assigns into the T that a
\* holds: neither ~T() nor a constructor runs on a's storage, and both stay
\* occupied.
C17_MoveAssignInPlace ==
    (/\ Done("move_assign")
     /\ Occupied(last.pre, last.a) /\ Occupied(last.pre, last.b))
    => (/\ ~HasEv(last.ev, "dtor", last.a)
        /\ ~HasEv(last.ev, "ctor", last.a)
        /\ HasEv(last.ev, "massign", last.a)
        /\ Occupied(h, last.a) /\ Occupied(h, last.b))

C17_Witness ==
    /\ Done("move_assign") /\ last.a # last.b
    /\ Occupied(last.pre, last.a) /\ Occupied(last.pre, last.b)
    /\ last.pre[last.a].val # last.pre[last.b].val
    /\ h[last.a].val = last.pre[last.b].val
    /\ HasEv(last.ev, "massign", last.a)

\* C18: move construction and move-assignment leave the source's flag as it
\* was; an occupied source stays occupied, holding a live (moved-from) T,
\* which the source's destructor then destroys exactly once.
C18_MoveKeepsSourceFlag ==
    (last.op \in {"ctor_move", "move_assign"} /\ SyncObj(last.pre, last.b))
    => (/\ h[last.b].empty = last.pre[last.b].empty
        /\ ~HasEv(last.ev, "dtor", last.b)
        /\ Occupied(last.pre, last.b)
           => (/\ Occupied(h, last.b)
               /\ Dtor(St0(h), last.b).ev = << <<"dtor", last.b>> >>
               /\ ~Dtor(St0(h), last.b).bad
               /\ ~Dtor(St0(h), last.b).leak))

\* the source of a completed move construction is still occupied and holds
\* the moved-from value
C18_Witness ==
    /\ Done("ctor_move")
    /\ Occupied(last.pre, last.b) /\ last.pre[last.b].val = MaxVal
    /\ Occupied(h, last.b) /\ h[last.b].val = 0
    /\ Occupied(h, last.a) /\ h[last.a].val = MaxVal

\* C19: when T's constructor throws in emplace on an occupied optional, the
\* optional is left empty over a dead slot, its previous value destroyed
\* exactly once, and its destructor then destroys nothing.
C19_EmplaceFailureLeavesEmpty ==
    (last.op = "emplace" /\ last.inj = "T" /\ Occupied(last.pre, last.a))
    => (/\ last.thrown /\ last.exc = "T"
        /\ Empty(h, last.a)
        /\ last.ev = << <<"dtor", last.a>>, <<"ctor", last.a>> >>
        /\ ~last.bad /\ ~last.leak
        /\ Dtor(St0(h), last.a).ev = <<>>
        /\ ~Dtor(St0(h), last.a).bad /\ ~Dtor(St0(h), last.a).leak)

C19_Witness ==
    /\ last.op = "emplace" /\ last.thrown
    /\ Occupied(last.pre, last.a) /\ last.pre[last.a].val = MaxVal
    /\ Empty(h, last.a)

CountEv(ev, k, o) == Cardinality({i \in 1..Len(ev) : ev[i] = <<k, o>>})

\* C20: a = a (copy-assignment to itself) leaves a as it was, empty or
\* occupied; the temporary's T is constructed once and destroyed once, with
\* no T constructed over a live T and no ~T() on a dead slot.
C20_SelfCopyAssign ==
    (Done("copy_assign") /\ last.a = last.b /\ SyncObj(last.pre, last.a))
    => (/\ h = last.pre
        /\ ~last.leak /\ ~last.bad
        /\ CountEv(last.ev, "ctor", Tmp)
             = IF Occupied(last.pre, last.a) THEN 1 ELSE 0
        /\ CountEv(last.ev, "dtor", Tmp) = CountEv(last.ev, "ctor", Tmp)
        /\ ~HasEv(last.ev, "dtor", last.a)
        /\ ~HasEv(last.ev, "ctor", last.a))

C20_Witness ==
    /\ Done("copy_assign") /\ last.a = last.b
    /\ Occupied(last.pre, last.a) /\ last.pre[last.a].val = MaxVal
    /\ Occupied(h, last.a) /\ h[last.a].val = MaxVal
    /\ CountEv(last.ev, "dtor", Tmp) = 1

====
